---- MODULE Spec2Model ----
(***************************************************************************)
(* Personal Finance Tracker (src/Main.py): the FinanceManager ledger, its  *)
(* JSON data file and the calls the text interface makes on it.            *)
(*                                                                         *)
(* Amounts are Python floats.  A float is modelled as an integer number of *)
(* units that fits in FloatPrecision significant bits, and every float     *)
(* addition or subtraction rounds its exact result to that many bits,      *)
(* ties to even, as IEEE-754 binary64 does with 53 bits.                   *)
(***************************************************************************)
EXTENDS Integers, Sequences, FiniteSets

VARIABLES
    transactions,          \* self.transactions: the list of Transaction objects
    next_transaction_id,   \* self.next_transaction_id
    data_file,             \* what self.data_file holds on disk
    pc,                    \* "running", or "crashed" when construction raised
    returned_list,         \* the list object a caller got from get_all_transactions
    last,                  \* the last call made on the ledger and its outcome
    returned_ids,          \* ids returned by add_transaction on this ledger, in order
    seen_ids               \* ids of every transaction that was ever in the collection

vars == <<transactions, next_transaction_id, data_file, pc, returned_list,
          last, returned_ids, seen_ids>>

-----------------------------------------------------------------------------
(* Bounds and input sets *)

MaxId == 3                 \* add_transaction is not called once the counter passes this
FloatPrecision == 3        \* significant bits of a modelled float

Kinds == {"income", "expense"}
Clock == {"2026-01-01 10:00:00", "2026-01-02 10:00:00"}
NoDate == ""

(* The calls of add_transaction the model makes: type, category, amount,
   description, and the time of the call *)
AddCall(transaction_type, category, amount, description, now) ==
    [transaction_type |-> transaction_type, category |-> category, amount |-> amount,
     description |-> description, now |-> now]

LedgerCalls ==
    { AddCall("income",   "Salary", 10, "July pay",  "2026-01-01 10:00:00"),
      AddCall("expense",  "Food",    7, "",          "2026-01-02 10:00:00"),
      AddCall("transfer", "Food",    7, "Moved",     "2026-01-02 10:00:00") }

ViewCalls ==
    { AddCall("income",   "Salary", 10, "July pay",  "2026-01-01 10:00:00"),
      AddCall("expense",  "Food",    7, "Groceries", "2026-01-01 10:00:00"),
      AddCall("expense",  "Salary",  1, "",          "2026-01-02 10:00:00"),
      AddCall("expense",  "Food",    2, "Snack",     "2026-01-02 10:00:00"),
      AddCall("expense",  "Food",   -1, "Refund",    "2026-01-02 10:00:00"),
      AddCall("transfer", "Food",    7, "Moved",     "2026-01-02 10:00:00") }

-----------------------------------------------------------------------------
(* Float arithmetic *)

RECURSIVE Pow2(_)
Pow2(n) == IF n = 0 THEN 1 ELSE 2 * Pow2(n - 1)

Abs(x) == IF x < 0 THEN -x ELSE x

RECURSIVE ExcessBits(_, _)
ExcessBits(m, e) ==
    IF m < Pow2(FloatPrecision + e) THEN e ELSE ExcessBits(m, e + 1)

RoundFloat(x) ==
    LET m == Abs(x)
        e == ExcessBits(m, 0)
    IN  IF e = 0 THEN x
        ELSE LET q == m \div Pow2(e)
                 r == m % Pow2(e)
                 half == Pow2(e - 1)
                 up == r > half \/ (r = half /\ q % 2 = 1)
                 n == (IF up THEN q + 1 ELSE q) * Pow2(e)
             IN  IF x < 0 THEN -n ELSE n

fadd(a, b) == RoundFloat(a + b)
fsub(a, b) == RoundFloat(a - b)

RECURSIVE sum(_)
sum(s) == IF s = <<>> THEN 0 ELSE fadd(sum(SubSeq(s, 1, Len(s) - 1)), s[Len(s)])

-----------------------------------------------------------------------------
(* class Transaction *)

Transaction(transaction_id, transaction_type, category, amount, description, date, now) ==
    [transaction_id   |-> transaction_id,
     transaction_type |-> transaction_type,
     category         |-> category,
     amount           |-> amount,
     description      |-> description,
     date             |-> IF date # NoDate THEN date ELSE now]

to_dict_no_description(t) ==
    [transaction_id   |-> t.transaction_id,
     transaction_type |-> t.transaction_type,
     category         |-> t.category,
     amount           |-> t.amount,
     description      |-> "",
     date             |-> t.date]

to_dict(t) ==
    [transaction_id   |-> t.transaction_id,
     transaction_type |-> t.transaction_type,
     category         |-> t.category,
     amount           |-> t.amount,
     description      |-> t.description,
     date             |-> t.date]

TransactionKeys ==
    {"transaction_id", "transaction_type", "category", "amount", "description", "date"}

from_dict(data, now) ==
    Transaction(data.transaction_id, data.transaction_type, data.category,
                data.amount, data.description, data.date, now)

-----------------------------------------------------------------------------
(* The data file *)

AbsentFile == [shape |-> "absent", data |-> <<>>]
GarbageFile == [shape |-> "garbage", data |-> <<>>]
ArrayFile == [shape |-> "array", data |-> <<>>]
ObjectFile(d) == [shape |-> "object", data |-> d]

(* FinanceManager.load_transactions, run by __init__ on transactions = [],
   next_transaction_id = 1 *)
load_transactions(file, now) ==
    LET fresh == [transactions |-> <<>>, next_transaction_id |-> 1, raised |-> FALSE]
        d == file.data
    IN  CASE file.shape = "absent"  -> fresh
          [] file.shape = "garbage" -> fresh
          [] file.shape = "array"   ->
                [transactions |-> <<>>, next_transaction_id |-> 1, raised |-> TRUE]
          [] OTHER ->
                IF "transactions" \notin DOMAIN d THEN fresh
                ELSE IF \E i \in 1..Len(d.transactions) :
                            ~(TransactionKeys \subseteq DOMAIN d.transactions[i])
                     THEN fresh
                     ELSE [transactions |->
                               [i \in 1..Len(d.transactions) |->
                                   from_dict(d.transactions[i], now)],
                           next_transaction_id |->
                               IF "next_id" \in DOMAIN d THEN d.next_id ELSE 1,
                           raised |-> FALSE]

(* FinanceManager.save_transactions: the file's contents after a complete write *)
save_transactions(txs, next_id) ==
    ObjectFile([transactions |-> [i \in 1..Len(txs) |-> to_dict(txs[i])],
                next_id      |-> next_id])

-----------------------------------------------------------------------------
(* One call of save_transactions() ends in one of three ways: the write
   completes ("written"); open() raises and the file keeps its contents
   ("open_raised"); the write stops part-way and leaves the file truncated,
   which no longer parses ("write_raised"). *)
WriteOutcomes == {"written", "open_raised", "write_raised"}

SaveRaised(outcome) == outcome # "written"

FileAfterSave(outcome, txs, next_id) ==
    CASE outcome = "written"      -> save_transactions(txs, next_id)
      [] outcome = "open_raised"  -> data_file
      [] outcome = "write_raised" -> GarbageFile

Ids(txs) == { txs[i].transaction_id : i \in 1..Len(txs) }

RemoveAt(s, i) == SubSeq(s, 1, i - 1) \o SubSeq(s, i + 1, Len(s))

Call(op, arg, raised, ret, wrote) ==
    [op |-> op, arg |-> arg, raised |-> raised, ret |-> ret, wrote |-> wrote]

-----------------------------------------------------------------------------
(* class FinanceManager *)

(* __init__: a new ledger over the file at hand *)
Construct(file, now) ==
    LET l == load_transactions(file, now)
    IN  /\ transactions = l.transactions
        /\ next_transaction_id = l.next_transaction_id
        /\ pc = IF l.raised THEN "crashed" ELSE "running"
        /\ returned_list = "none"
        /\ last = Call("init", 0, l.raised, 0, FALSE)
        /\ returned_ids = <<>>
        /\ seen_ids = Ids(l.transactions)

IncrementId_stuck(n) == n

(* self.next_transaction_id += 1 *)
IncrementId(n) == n + 1

add_transaction(transaction_type, category, amount, description, now, outcome) ==
    /\ pc = "running"
    /\ next_transaction_id <= MaxId
    /\ LET transaction == Transaction(next_transaction_id, transaction_type, category,
                                      amount, description, NoDate, now)
           appended == Append(transactions, transaction)
       IN  /\ transactions' = appended
           /\ next_transaction_id' = IncrementId(next_transaction_id)
           /\ seen_ids' = seen_ids \cup {transaction.transaction_id}
           /\ data_file' = FileAfterSave(outcome, appended, next_transaction_id')
           /\ last' = Call("add", transaction_type, SaveRaised(outcome),
                           transaction.transaction_id, ~SaveRaised(outcome))
           /\ returned_ids' = IF SaveRaised(outcome) THEN returned_ids
                              ELSE Append(returned_ids, transaction.transaction_id)
    /\ UNCHANGED <<pc, returned_list>>

delete_transaction(transaction_id, outcome) ==
    /\ pc = "running"
    /\ LET matches == { i \in 1..Len(transactions) :
                            transactions[i].transaction_id = transaction_id }
       IN  IF matches # {}
           THEN LET i == CHOOSE m \in matches : \A n \in matches : m <= n
                    popped == RemoveAt(transactions, i)
                IN  /\ transactions' = popped
                    /\ data_file' = FileAfterSave(outcome, popped, next_transaction_id)
                    /\ last' = Call("delete", transaction_id, SaveRaised(outcome), TRUE,
                                    ~SaveRaised(outcome))
           ELSE /\ last' = Call("delete", transaction_id, FALSE, FALSE, FALSE)
                /\ UNCHANGED <<transactions, data_file>>
    /\ UNCHANGED <<next_transaction_id, pc, returned_list, returned_ids, seen_ids>>

get_all_transactions ==
    /\ pc = "running"
    /\ returned_list' = "self.transactions"
    /\ last' = Call("get_all_transactions", 0, FALSE, transactions, FALSE)
    /\ UNCHANGED <<transactions, next_transaction_id, data_file, pc, returned_ids, seen_ids>>

get_transactions_by_type(txs, transaction_type) ==
    SelectSeq(txs, LAMBDA t : t.transaction_type = transaction_type)

AmountsOf(txs) == [i \in 1..Len(txs) |-> txs[i].amount]

calculate_balance_added(txs) ==
    LET income   == sum(AmountsOf(SelectSeq(txs, LAMBDA t : t.transaction_type = "income")))
        expenses == sum(AmountsOf(SelectSeq(txs, LAMBDA t : t.transaction_type = "expense")))
    IN  fadd(income, expenses)

calculate_balance(txs) ==
    LET income   == sum(AmountsOf(SelectSeq(txs, LAMBDA t : t.transaction_type = "income")))
        expenses == sum(AmountsOf(SelectSeq(txs, LAMBDA t : t.transaction_type = "expense")))
    IN  fsub(income, expenses)

(* A dict is the sequence of its items in insertion order *)
DictGet(d, key, default) ==
    IF \E i \in 1..Len(d) : d[i].key = key
    THEN (d[CHOOSE i \in 1..Len(d) : d[i].key = key]).value
    ELSE default

DictSet(d, key, value) ==
    IF \E i \in 1..Len(d) : d[i].key = key
    THEN [i \in 1..Len(d) |-> IF d[i].key = key THEN [key |-> key, value |-> value] ELSE d[i]]
    ELSE Append(d, [key |-> key, value |-> value])

DictValues(d) == [i \in 1..Len(d) |-> d[i].value]

RECURSIVE CategorySummaryLoop(_, _)
CategorySummaryLoop(txs, n) ==
    IF n = 0 THEN <<>>
    ELSE LET summary == CategorySummaryLoop(txs, n - 1)
             t == txs[n]
         IN  IF t.transaction_type = "expense"
             THEN DictSet(summary, t.category,
                          fadd(DictGet(summary, t.category, 0), t.amount))
             ELSE summary

get_category_summary(txs) == CategorySummaryLoop(txs, Len(txs))

-----------------------------------------------------------------------------
(* class FinanceTrackerUI: the views *)

view_balance ==
    /\ pc = "running"
    /\ last' = Call("view_balance", 0, FALSE,
                    [balance  |-> calculate_balance(transactions),
                     income   |-> sum(AmountsOf(get_transactions_by_type(transactions, "income"))),
                     expenses |-> sum(AmountsOf(get_transactions_by_type(transactions, "expense")))],
                    FALSE)
    /\ UNCHANGED <<transactions, next_transaction_id, data_file, pc, returned_list,
                   returned_ids, seen_ids>>

view_category_summary ==
    /\ pc = "running"
    /\ LET summary == get_category_summary(transactions)
       IN  last' = Call("view_category_summary", 0, FALSE,
                        [summary |-> summary, total |-> sum(DictValues(summary))], FALSE)
    /\ UNCHANGED <<transactions, next_transaction_id, data_file, pc, returned_list,
                   returned_ids, seen_ids>>

(* A caller that kept the list get_all_transactions returned removes its last
   element: the list is the ledger's own list object. *)
caller_pops_returned_list ==
    /\ pc = "running"
    /\ returned_list = "self.transactions"
    /\ transactions # <<>>
    /\ transactions' = SubSeq(transactions, 1, Len(transactions) - 1)
    /\ last' = Call("caller_pop", 0, FALSE, 0, FALSE)
    /\ UNCHANGED <<next_transaction_id, data_file, pc, returned_list, returned_ids, seen_ids>>

(* Exit (choice 7) and a new run of the program: a new FinanceManager over the
   file as it is *)
restart(now) ==
    LET l == load_transactions(data_file, now)
    IN  /\ pc = "running"
        /\ transactions' = l.transactions
        /\ next_transaction_id' = l.next_transaction_id
        /\ pc' = IF l.raised THEN "crashed" ELSE "running"
        /\ returned_list' = "none"
        /\ last' = Call("init", 0, l.raised, 0, FALSE)
        /\ returned_ids' = <<>>
        /\ seen_ids' = Ids(l.transactions)
        /\ UNCHANGED data_file

-----------------------------------------------------------------------------
(* The data file the first run finds: none, one an earlier run wrote, or one
   that is damaged *)

StoredTransaction ==
    to_dict(Transaction(1, "expense", "Food", 7, "Groceries", "2026-01-01 10:00:00", NoDate))

WrittenFiles ==
    { AbsentFile,
      ObjectFile([transactions |-> <<StoredTransaction>>, next_id |-> 2]) }

InitialFiles ==
    WrittenFiles \cup
    { GarbageFile,
      ArrayFile,
      ObjectFile([next_id |-> 2]),
      ObjectFile([transactions |-> <<StoredTransaction>>]),
      ObjectFile([transactions |-> <<[transaction_id |-> 1, transaction_type |-> "expense",
                                      category |-> "Food", amount |-> 7]>>,
                  next_id |-> 2]) }

Init ==
    /\ data_file \in InitialFiles
    /\ \E now \in Clock : Construct(data_file, now)

(* A first run that finds no file or an undamaged one *)
InitWritten ==
    /\ data_file \in WrittenFiles
    /\ \E now \in Clock : Construct(data_file, now)

AddStep(calls, outcomes) ==
    \E c \in calls, w \in outcomes :
        add_transaction(c.transaction_type, c.category, c.amount, c.description, c.now, w)

DeleteStep(outcomes) ==
    \E id \in 1..MaxId, w \in outcomes : delete_transaction(id, w)

Restart == \E now \in Clock : restart(now)

(* The ledger and its data file, writes failing or not *)
Next ==
    \/ AddStep(LedgerCalls, WriteOutcomes)
    \/ DeleteStep(WriteOutcomes)
    \/ Restart

Spec == Init /\ [][Next]_vars

(* The ledger and the views the interface shows *)
NextViews ==
    \/ AddStep(ViewCalls, {"written"})
    \/ DeleteStep({"written"})
    \/ view_balance
    \/ view_category_summary

SpecViews == InitWritten /\ [][NextViews]_vars

(* The ledger and a caller that keeps the list get_all_transactions returned *)
NextCaller ==
    \/ AddStep(LedgerCalls, {"written"})
    \/ DeleteStep({"written"})
    \/ get_all_transactions
    \/ caller_pops_returned_list

SpecCaller == InitWritten /\ [][NextCaller]_vars

-----------------------------------------------------------------------------
(* Properties *)

ReturnedTrue(call)  == ~call.raised /\ call.ret = TRUE
ReturnedFalse(call) == ~call.raised /\ call.ret = FALSE

(* C1: each id add_transaction returns on one ledger is strictly greater than
   every id an earlier add_transaction returned on it, whatever deletions came
   in between; so no returned id is returned twice. *)
C1_AddIdsStrictlyIncreasing ==
    \A i, j \in 1..Len(returned_ids) :
        i < j => returned_ids[i] < returned_ids[j]

(* An add has just returned an id after an earlier returned id was deleted *)
C1_Witness ==
    /\ last.op = "add" /\ ~last.raised
    /\ Len(returned_ids) >= 2
    /\ returned_ids[1] \notin Ids(transactions)

(* C2: the counter is strictly greater than the id of every transaction that is
   or was in the collection, from construction on. *)
C2_NextIdAboveEveryId ==
    pc = "running" => \A id \in seen_ids : id < next_transaction_id

(* C3: delete_transaction returns true exactly when the id is in the collection
   before the call, and then the first match is removed and the ledger saved;
   when nothing matches, as in a second delete of the id just deleted, it
   returns false, writes nothing and changes neither collection nor counter. *)
C3_DeleteContract ==
    [][ (last'.op = "delete" /\ <<transactions, last>>' # <<transactions, last>>) =>
          LET id == last'.arg
              present == id \in Ids(transactions)
          IN  /\ ReturnedTrue(last') =>
                    /\ present
                    /\ Len(transactions') = Len(transactions) - 1
                    /\ data_file' = save_transactions(transactions', next_transaction_id')
              /\ present => (ReturnedTrue(last') \/ last'.raised)
              /\ ~present =>
                    /\ ReturnedFalse(last')
                    /\ ~last'.wrote
                    /\ UNCHANGED <<transactions, next_transaction_id, data_file>>
              /\ (last.op = "delete" /\ ReturnedTrue(last) /\ last.arg = id) =>
                    ReturnedFalse(last')
      ]_vars

TotalOf(transaction_type) ==
    LET RECURSIVE Upto(_)
        Upto(n) ==
            IF n = 0 THEN 0
            ELSE IF transactions[n].transaction_type = transaction_type
                 THEN fadd(Upto(n - 1), transactions[n].amount)
                 ELSE Upto(n - 1)
    IN  Upto(Len(transactions))

(* C4: the balance shown is the sum of the income amounts minus the sum of the
   expense amounts of the collection, each summed in collection order, and 0
   for an empty ledger. *)
C4_BalanceIsIncomeMinusExpenses ==
    last.op = "view_balance" =>
        /\ last.ret.balance = fsub(TotalOf("income"), TotalOf("expense"))
        /\ transactions = <<>> => last.ret.balance = 0

(* The balance of a ledger holding income and expenses, after a deletion *)
C4_Witness ==
    /\ last.op = "view_balance"
    /\ \E i, j \in 1..Len(transactions) :
          /\ transactions[i].transaction_type = "income"
          /\ transactions[j].transaction_type = "expense"
    /\ \E id \in seen_ids : id \notin Ids(transactions)
    /\ last.ret.balance # 0

CategoryTotal(category) ==
    LET RECURSIVE Upto(_)
        Upto(n) ==
            IF n = 0 THEN 0
            ELSE IF /\ transactions[n].transaction_type = "expense"
                    /\ transactions[n].category = category
                 THEN fadd(Upto(n - 1), transactions[n].amount)
                 ELSE Upto(n - 1)
    IN  Upto(Len(transactions))

ExpenseCategories ==
    { transactions[i].category :
        i \in { n \in 1..Len(transactions) : transactions[n].transaction_type = "expense" } }

C5_KeysAndValues ==
    last.op = "view_category_summary" =>
        LET summary == last.ret.summary
        IN  /\ { summary[i].key : i \in 1..Len(summary) } = ExpenseCategories
            /\ \A i, j \in 1..Len(summary) : summary[i].key = summary[j].key => i = j
            /\ \A i \in 1..Len(summary) : summary[i].value = CategoryTotal(summary[i].key)

(* C5: the summary's keys are exactly the categories of the expenses in the
   collection, each key maps to the sum of that category's expense amounts, and
   the sum of all its values equals the total of all expense amounts. *)
C5_CategorySummary ==
    /\ C5_KeysAndValues
    /\ last.op = "view_category_summary" => last.ret.total = TotalOf("expense")

(* C6: after every add or delete that returned normally, the file holds the
   whole collection and the counter, and a new ledger constructed from it has
   the same transactions in the same order and the same counter. *)
C6_SavedStateRoundTrips ==
    (last.op = "add" /\ ~last.raised) \/ (last.op = "delete" /\ ReturnedTrue(last)) =>
        /\ data_file.shape = "object"
        /\ "next_id" \in DOMAIN data_file.data
        /\ data_file.data.next_id = next_transaction_id
        /\ \A now \in Clock :
              load_transactions(data_file, now) =
                  [transactions |-> transactions,
                   next_transaction_id |-> next_transaction_id,
                   raised |-> FALSE]

(* A delete has just been saved and left a described transaction behind *)
C6_Witness ==
    /\ last.op = "delete" /\ ReturnedTrue(last)
    /\ \E i \in 1..Len(transactions) : transactions[i].description # ""

Malformed(file) ==
    \/ file.shape = "garbage"
    \/ /\ file.shape = "object"
       /\ \/ "transactions" \notin DOMAIN file.data
          \/ "next_id" \notin DOMAIN file.data
          \/ \E i \in 1..Len(file.data.transactions) :
                ~(TransactionKeys \subseteq DOMAIN file.data.transactions[i])

(* C7: constructing a ledger over a malformed file never fails and yields an
   empty collection with the counter at 1. *)
C7_MalformedFileYieldsEmptyLedger ==
    (last.op = "init" /\ Malformed(data_file)) =>
        /\ pc = "running"
        /\ ~last.raised
        /\ transactions = <<>>
        /\ next_transaction_id = 1

(* C8: after an add or delete whose write failed, the collection and the
   counter in memory do not differ from what the file holds. *)
C8_NoDivergenceAfterFailedWrite ==
    (last.op \in {"add", "delete"} /\ last.raised) =>
        \A now \in Clock :
            LET held == load_transactions(data_file, now)
            IN  /\ held.transactions = transactions
                /\ held.next_transaction_id = next_transaction_id

(* C9: add_transaction with a type other than income or expense fails: nothing
   is appended, the counter does not advance, nothing is written, so every
   transaction in the collection is an income or an expense. *)
C9_InvalidKindRejected ==
    /\ (last.op = "add" /\ last.arg \notin Kinds) => (last.raised /\ ~last.wrote)
    /\ \A i \in 1..Len(transactions) : transactions[i].transaction_type \in Kinds

(* C10: get_all_transactions returns the whole collection in order, and a
   caller changing the list it returned does not change the ledger's
   collection, which changes only through add and delete. *)
C10_CollectionOwnedByLedger ==
    [][ /\ last'.op = "get_all_transactions" => last'.ret = transactions'
        /\ transactions' # transactions => last'.op \in {"add", "delete", "init"}
      ]_vars

====
